---- MODULE Spec2Model ----
(***************************************************************************)
(* Vulcan: a fireworks simulation.  Shells are launched toward a target,   *)
(* detonate into stars, and stars burn out.  The model follows the         *)
(* animation loop, the fanfare timer, the click handler and the Body /     *)
(* Shell / Star methods of the script.                                     *)
(*                                                                         *)
(* Numbers.  JavaScript numbers are modelled as fixed-point values with FP *)
(* units per 1 (so 1.25 is 125), together with NaN and +/-Infinity.  A     *)
(* result whose magnitude exceeds MaxMagnitude becomes +/-Infinity, as a   *)
(* double does beyond its range.  Quotients are truncated toward zero.     *)
(* Times are seconds in the same fixed-point scale (1 unit = 10 ms).       *)
(***************************************************************************)
EXTENDS Integers, Sequences, FiniteSets, TLC

(***************************************************************************)
(* Bounds of the model                                                     *)
(***************************************************************************)

\* fixed-point units per 1
FP == 100

\* magnitude beyond which a number overflows to +/-Infinity
MaxMagnitude == 1000000000

(***************************************************************************)
(* JavaScript values                                                       *)
(*                                                                         *)
(* A number is an integer n (the fixed-point value n / FP) with            *)
(* -MaxMagnitude <= n <= MaxMagnitude, or one of PosInf, NegInf, NaN.      *)
(* The script uses null, undefined, false and true only in arithmetic,     *)
(* comparisons and truth tests, where undefined behaves as NaN, null and   *)
(* false as 0 and true as a non-zero number: they are modelled as such.    *)
(***************************************************************************)

PosInf == MaxMagnitude + 1

NegInf == -(MaxMagnitude + 1)

NaN == MaxMagnitude + 2

Undefined == NaN

Null == 0

False == 0

True == FP

Abs(n) == IF n < 0 THEN -n ELSE n

Sign(n) == IF n < 0 THEN -1 ELSE 1

Inf(s) == IF s < 0 THEN NegInf ELSE PosInf

IsNaN(a) == a = NaN

IsInf(a) == a = PosInf \/ a = NegInf

IsNumber(a) == ~IsNaN(a) /\ ~IsInf(a)

\* integer quotient truncated toward zero, d > 0
Quot(n, d) == IF n < 0 THEN -((-n) \div d) ELSE n \div d

\* a finite result, or +/-Infinity when it is out of range
Finite(n) == IF Abs(n) > MaxMagnitude THEN Inf(Sign(n)) ELSE n

\* truthiness: 0 and NaN are falsy
Truthy(a) == ~IsNaN(a) /\ a # 0

NNeg(a) == IF IsNaN(a) THEN NaN ELSE -a

\* a + b
NAdd(a, b) ==
    CASE IsNaN(a) \/ IsNaN(b)       -> NaN
      [] IsNumber(a) /\ IsNumber(b) -> Finite(a + b)
      [] IsInf(a) /\ IsNumber(b)    -> a
      [] IsNumber(a) /\ IsInf(b)    -> b
      [] OTHER                      -> IF a = b THEN a ELSE NaN

\* a - b
NSub(a, b) == NAdd(a, NNeg(b))

\* the product of the two representations (not rescaled): Infinity when it
\* would leave the range
NMul(a, b) ==
    CASE IsNaN(a) \/ IsNaN(b)       -> NaN
      [] IsNumber(a) /\ IsNumber(b) ->
            IF a = 0 \/ b = 0 THEN 0
            ELSE IF Abs(a) > MaxMagnitude \div Abs(b)
                 THEN Inf(Sign(a) * Sign(b))
                 ELSE a * b
      [] OTHER ->
            IF a = 0 \/ b = 0 THEN NaN ELSE Inf(Sign(a) * Sign(b))

\* a representation divided by the positive integer d (a rescaling)
NDivInt(a, d) == IF IsNumber(a) THEN Quot(a, d) ELSE a

\* a * b, both and the result in fixed point
NTimes(a, b) == NDivInt(NMul(a, b), FP)

\* a / b, both and the result in fixed point: 0/0 is NaN, x/0 is +/-Infinity
NDiv(a, b) ==
    CASE IsNaN(a) \/ IsNaN(b)       -> NaN
      [] IsNumber(a) /\ IsNumber(b) ->
            IF b = 0
            THEN (IF a = 0 THEN NaN ELSE Inf(Sign(a)))
            ELSE LET n == NMul(a, FP)
                 IN  IF IsNumber(n)
                     THEN Sign(b) * Quot(n, Abs(b))
                     ELSE Inf(Sign(a) * Sign(b))
      [] IsInf(a) /\ IsNumber(b)    -> Inf(Sign(a) * Sign(b))
      [] IsNumber(a) /\ IsInf(b)    -> 0
      [] OTHER                      -> NaN

\* a > b: false when either side is NaN
NGt(a, b) == ~IsNaN(a) /\ ~IsNaN(b) /\ a > b

\* the largest r with r * r <= n, by bisection on lo <= r < hi
RECURSIVE ISqrtBetween(_, _, _)
ISqrtBetween(n, lo, hi) ==
    IF hi - lo <= 1 THEN lo
    ELSE LET mid == (lo + hi) \div 2
         IN  IF mid * mid <= n THEN ISqrtBetween(n, mid, hi)
                               ELSE ISqrtBetween(n, lo, mid)

ISqrt(n) == ISqrtBetween(n, 0, 31623)

\* Math.sqrt(s)
Sqrt(s) ==
    CASE IsNaN(s) \/ s < 0 -> NaN
      [] s = PosInf        -> PosInf
      [] OTHER             -> ISqrt(s)

\* Math.sqrt(Math.pow(a, 2) + Math.pow(b, 2)) in fixed point
Hypot(a, b) == Sqrt(NAdd(NMul(a, a), NMul(b, b)))

\* In(value): a local definition whose value is computed once
Let(value, In(_)) == In(value)

(***************************************************************************)
(* Constants of the script                                                 *)
(***************************************************************************)

\* the number of pixels that equal 1 meter
SCALE == 10

\* the framerate (f/s) at which shells should be blocked from spawning
FRAMERATE_TOLERANCE == 15

\* -9.80665 m/s^2
ACCELERATION_DUE_TO_GRAVITY == (Quot(-980665 * FP, 100000))

\* 1.29 kg/m^3
AIR_DENSITY == (Quot(129 * FP, 100))

\* fixed-point units per 1 m^2 of a cross-sectional area (areas are small)
AreaFP == FP * 10

\* 0.01 m^2
STAR_CROSS_SECTIONAL_AREA == (Quot(AreaFP, 100))

\* 0.01 kg
STAR_MASS == (Quot(FP, 100))

\* 0.4
STAR_DRAG_COEFFICIENT == (Quot(4 * FP, 10))

\* the number of stars in a shell
STAR_COUNT == 100

\* 0.6 + (STAR_MASS * STAR_COUNT) kg
SHELL_MASS == NAdd((Quot(6 * FP, 10)), NMul(STAR_MASS, STAR_COUNT))

\* 100 newtons
SHELL_THRUST == (100 * FP)

\* 0.47
SHELL_DRAG_COEFFICIENT == (Quot(47 * FP, 100))

\* 0.002 m^2
SHELL_CROSS_SECTIONAL_AREA == (Quot(2 * AreaFP, 1000))

\* seconds
MINIMUM_RANDOM_SPAWN_PERIOD == 2

\* seconds
MAXIMUM_RANDOM_SPAWN_PERIOD == 5

\* the fanfare lasts until more than this many seconds have passed
FANFARE_SECONDS == 4

(***************************************************************************)
(* The canvas (its size is fixed in the model)                             *)
(***************************************************************************)

\* canvas.offsetWidth, in pixels
CanvasWidth == 200

\* canvas.offsetHeight, in pixels
CanvasHeight == 100

Pixels(n) == (n * FP)

(***************************************************************************)
(* Helper functions                                                        *)
(***************************************************************************)

mapToCanvas(position) ==
    LET scale(component) == NMul(component, SCALE)
        invert(component, center) == NAdd(center, NSub(center, component))
        verticalCenter == NDivInt(Pixels(CanvasHeight), 2)
    IN  << scale(position[1]), invert(scale(position[2]), verticalCenter) >>

\* a faulty mapFromCanvas, which does not invert the vertical component
mapFromCanvasUpright(position) ==
    << NDivInt(position[1], SCALE), NDivInt(position[2], SCALE) >>

mapFromCanvas(position) ==
    LET scale(component) == NDivInt(component, SCALE)
        invert(component, center) == NAdd(center, NSub(center, component))
        verticalCenter == NDivInt(Pixels(CanvasHeight), 2)
    IN  << scale(position[1]), scale(invert(position[2], verticalCenter)) >>

\* d = vt + (1/2)at^2
calculateDistance(initialSpeed, time, acceleration) ==
    NAdd(NTimes(initialSpeed, time),
         NDivInt(NMul(NMul(acceleration, time), time), 2 * FP * FP))

calculateDisplacement(initalPosition, finalPosition) ==
    LET components == << NSub(finalPosition[1], initalPosition[1]),
                         NSub(finalPosition[2], initalPosition[2]) >>
    IN  Hypot(components[1], components[2])

calculateSpeed(distance, time) == NDiv(distance, time)

\* F = 0.5 rho C A v^2, F = ma.  The factors of the drag are multiplied
\* starting from the squared speed, so that the small ones are not rounded
\* away.
calculateAccelerationDueToDrag(fluidDensity, dragCoefficient, crossSectionalArea, velocity, mass) ==
    Let(Hypot(velocity[1], velocity[2]), LAMBDA speed :
    Let(NNeg(NDivInt(NMul(NTimes(NTimes(NTimes(speed, speed),
                                        fluidDensity),
                                 dragCoefficient),
                          crossSectionalArea),
                     2 * AreaFP)), LAMBDA drag :
        << NTimes(NDiv(drag, mass), NDiv(velocity[1], speed)),
           NTimes(NDiv(drag, mass), NDiv(velocity[2], speed)) >>))

(***************************************************************************)
(* Body                                                                    *)
(***************************************************************************)

\* the fields the Body constructor sets
Body(initialPosition, initalVelocity, initalAcceleration, mass, dragCoefficient, crossSectionalArea) ==
    [ currentPosition     |-> initialPosition,
      currentVelocity     |-> initalVelocity,
      currentAcceleration |-> initalAcceleration,
      mass                |-> mass,
      dragCoefficient     |-> dragCoefficient,
      crossSectionalArea  |-> crossSectionalArea,
      spawned             |-> False,
      lastUpdate          |-> Null ]

\* a faulty getAccelerationDueToThrust, whose thrust has the size
\* SHELL_THRUST / SHELL_MASS in each direction whatever the velocity
thrustWithoutDirection(this) ==
    << NDiv(SHELL_THRUST, SHELL_MASS), NDiv(SHELL_THRUST, SHELL_MASS) >>

\* Shell.prototype.getAccelerationDueToThrust
getAccelerationDueToThrust(this) ==
    LET velocity == this.currentVelocity
    IN  Let(Hypot(velocity[1], velocity[2]), LAMBDA speed :
        LET proportions == << NDiv(velocity[1], speed),
                              NDiv(velocity[2], speed) >>
        IN  << NDiv(NTimes(proportions[1], SHELL_THRUST), SHELL_MASS),
               NDiv(NTimes(proportions[2], SHELL_THRUST), SHELL_MASS) >>)

\* a faulty x || 0, which keeps x
OrSame(x) == x

\* x || 0
OrZero(x) == IF Truthy(x) THEN x ELSE 0

\* a faulty update(), whose first call also clears the acceleration
updateClearsAcceleration(this, clock) ==
    [this EXCEPT !.currentAcceleration = << 0, 0 >>, !.lastUpdate = clock]

\* Body.prototype.update, called when getArbitraryTime() returns clock.
\* Only a Shell has the method getAccelerationDueToThrust.
update(this, clock) ==
    IF ~Truthy(this.lastUpdate)
    THEN [this EXCEPT !.lastUpdate = clock]
    ELSE
    LET lastPosition     == this.currentPosition
        lastVelocity     == this.currentVelocity
        lastAcceleration == this.currentAcceleration
        timeNow          == clock
        timeDelta        == NSub(timeNow, this.lastUpdate)
    IN  Let(<< calculateDistance(lastVelocity[1], timeDelta, lastAcceleration[1]),
               calculateDistance(lastVelocity[2], timeDelta, lastAcceleration[2]) >>,
            LAMBDA displacement :
        Let(calculateAccelerationDueToDrag(AIR_DENSITY, this.dragCoefficient,
                this.crossSectionalArea, lastVelocity, this.mass),
            LAMBDA accelerationDueToDrag :
        Let(IF this.class = "Shell" THEN getAccelerationDueToThrust(this)
                                    ELSE << 0, 0 >>,
            LAMBDA accelerationDueToThrust :
            [this EXCEPT
               !.currentPosition =
                   << NAdd(lastPosition[1], displacement[1]),
                      NAdd(lastPosition[2], displacement[2]) >>,
               !.currentVelocity =
                   << calculateSpeed(displacement[1], timeDelta),
                      calculateSpeed(displacement[2], timeDelta) >>,
               !.currentAcceleration =
                   << NAdd(OrZero(accelerationDueToThrust[1]),
                           OrZero(accelerationDueToDrag[1])),
                      NAdd(NAdd(OrZero(accelerationDueToThrust[2]),
                                OrZero(accelerationDueToDrag[2])),
                           ACCELERATION_DUE_TO_GRAVITY) >>,
               !.lastUpdate = timeNow])))

(***************************************************************************)
(* Shell                                                                   *)
(***************************************************************************)

\* Shell.getLauncherPosition
getLauncherPosition ==
    mapFromCanvas(<< NDivInt(Pixels(CanvasWidth), 2),
                     NAdd(Pixels(CanvasHeight), Pixels(20)) >>)

\* Shell.calculateInitialAcceleration
calculateInitialAcceleration(initalPosition, target, mass, thrust) ==
    LET deltaX == NSub(target[1], initalPosition[1])
        deltaY == NSub(target[2], initalPosition[2])
    IN  Let(Hypot(deltaX, deltaY), LAMBDA displacment :
        LET xProportion == NDiv(deltaX, displacment)
            yProportion == NDiv(deltaY, displacment)
            totalAcceleration == NDiv(thrust, mass)
        IN  << NTimes(totalAcceleration, xProportion),
               NTimes(totalAcceleration, yProportion) >>)

\* Shell.getRandomTarget, with the pixel position it drew
getRandomTarget(pixel) == mapFromCanvas(<< Pixels(pixel[1]), Pixels(pixel[2]) >>)

\* new Shell(target); target is << >> when the argument is left out.  draw
\* holds what the constructor draws at random: draw.color is the value of
\* Shell.getRandomColor(), draw.pixel the position Shell.getRandomTarget()
\* draws.
Shell(targetArgument, draw) ==
    LET target == IF targetArgument = << >> THEN getRandomTarget(draw.pixel)
                                           ELSE targetArgument
        color  == draw.color
        laucherPosition == getLauncherPosition
    IN  Let(Body(laucherPosition,
                 << 0, 0 >>,
                 calculateInitialAcceleration(laucherPosition, target,
                                              SHELL_MASS, SHELL_THRUST),
                 SHELL_MASS, SHELL_DRAG_COEFFICIENT,
                 SHELL_CROSS_SECTIONAL_AREA), LAMBDA body :
        [ class               |-> "Shell",
          target              |-> target,
          detonated           |-> FALSE,
          color               |-> color,
          currentPosition     |-> body.currentPosition,
          currentVelocity     |-> body.currentVelocity,
          currentAcceleration |-> body.currentAcceleration,
          mass                |-> body.mass,
          dragCoefficient     |-> body.dragCoefficient,
          crossSectionalArea  |-> body.crossSectionalArea,
          spawned             |-> body.spawned,
          lastUpdate          |-> body.lastUpdate ])

(***************************************************************************)
(* Star                                                                    *)
(***************************************************************************)

\* new Star(shell), shell being the Shell object with identity shellId.
\* draw holds what the constructor draws at random: magnitude is
\* getRandomInteger(3, 100), direction is << cos, sin >> of
\* getRandomArbitrary(0, 2 * Math.PI), duration is getRandomArbitrary(2.5, 3).
Star(shell, shellId, draw) ==
    LET randomMagnitude == draw.magnitude
        randomVelocity  == << NMul(draw.direction[1], randomMagnitude),
                              NMul(draw.direction[2], randomMagnitude) >>
    IN  Let(Body(shell.currentPosition,
                 randomVelocity,
                 << 0, 0 >>,
                 STAR_MASS, STAR_DRAG_COEFFICIENT,
                 STAR_CROSS_SECTIONAL_AREA), LAMBDA body :
        [ class               |-> "Star",
          shell               |-> shellId,
          duration            |-> draw.duration,
          decayed             |-> FALSE,
          color               |-> shell.color,
          currentPosition     |-> body.currentPosition,
          currentVelocity     |-> body.currentVelocity,
          currentAcceleration |-> body.currentAcceleration,
          mass                |-> body.mass,
          dragCoefficient     |-> body.dragCoefficient,
          crossSectionalArea  |-> body.crossSectionalArea,
          spawned             |-> body.spawned,
          lastUpdate          |-> body.lastUpdate ])

(***************************************************************************)
(* What the environment supplies: random draws, pointer positions, time    *)
(***************************************************************************)

\* the most shells ever constructed in one run
MaxShells == 2

\* the most animation frames in one run of the page
MaxFrames == 4

\* the clock (performance.now() / 1000, in fixed point) never passes this
MaxTime == 620

\* by how much the clock advances from one animation frame to the next: one
\* fast frame (60 ms, above 15 f/s) or a stall of 3 s
ClockSteps == { (6 * FP) \div 100, 3 * FP }

\* the most calls of detonate() on one shell from outside the loop
MaxDetonateCalls == 2

\* flights: frames 400 ms apart (2.5 f/s), clicks until ClickDeadline
FlightSteps == { (40 * FP) \div 100 }

ClickDeadline == 1

FlightMaxTime == 241

\* fanfares: frames 3 s apart, keys until KeyUpDeadline
FanfareSteps == { 3 * FP }

KeyUpDeadline == 301

FanfareMaxTime == 1600

\* calls of the constructors and of update(): the most objects constructed,
\* the clock value after which nothing is constructed, the steps of the
\* clock from one call of update() to the next (none, or 400 ms), and the
\* last clock value
MaxBodies == 2

ConstructDeadline == 1

BodySteps == { 0, (40 * FP) \div 100 }

BodyMaxTime == 41

\* ticks whose clock values may repeat: the steps of the clock from one
\* animation frame to the next (none, or 400 ms), the most frames, the last
\* clock value, and the clicks: 5 m straight above the launcher, which a
\* shell reaches exactly after 400 ms of flight, and the top centre
TickSteps == { 0, (40 * FP) \div 100 }

MaxTickFrames == 5

TickMaxTime == 161

TickPixels ==
    { << CanvasWidth \div 2, CanvasHeight - 3 * SCALE >>,
      << CanvasWidth \div 2, 0 >> }

\* bursts one after the other: frames 400 ms apart until BurstMaxTime,
\* clicks until BurstClickDeadline
BurstClickDeadline == 241

BurstMaxTime == 361

\* stars that burn out: frames 400 ms apart until BurnMaxTime, clicks until
\* ClickDeadline
BurnMaxTime == 801

\* pixel positions [event.clientX, event.clientY] of a click: the bottom
\* centre (2 m above the launcher) and the top centre
ClickPixels ==
    { << CanvasWidth \div 2, CanvasHeight >>, << CanvasWidth \div 2, 0 >> }

\* What the STAR_COUNT constructions of one detonation draw: star i gets
\* entry ((i - 1) % Len) + 1 of each sequence.  magnitude is
\* getRandomInteger(3, 100), direction << cos, sin >> of
\* getRandomArbitrary(0, 2 * Math.PI), duration getRandomArbitrary(2.5, 3).
StarDraws ==
    { [ magnitude |-> << 3 >>,
        direction |-> << << FP, 0 >> >>,
        duration  |-> << ((5 * FP) \div 2) >> ],
      [ magnitude |-> << 3, 20 >>,
        direction |-> << << 0, FP >>, << (3 * FP) \div 5, (4 * FP) \div 5 >>,
                         << -FP, 0 >> >>,
        duration  |-> << ((5 * FP) \div 2), (3 * FP - 1),
                         (3 * FP - 1) >> ] }

Cyclic(seq, i) == seq[((i - 1) % Len(seq)) + 1]

\* the draws of the i-th star of a detonation
StarDraw(draws, i) ==
    [ magnitude |-> Cyclic(draws.magnitude, i),
      direction |-> Cyclic(draws.direction, i),
      duration  |-> Cyclic(draws.duration, i) ]

(***************************************************************************)
(* State                                                                   *)
(***************************************************************************)

VARIABLES
    now,                      \* what getArbitraryTime() returns
    loaded,                   \* the window's load event has been dispatched
    framePending,             \* animation-frame callbacks requested, not yet run
    frames,                   \* animation frames run so far
    mostRecentRepaint,
    framerate,
    mostRecentRandomSpawn,
    currentRandomSpawnPeriod,
    shells,                   \* the array shells: identities of Shell objects
    stars,                    \* the array stars: identities of Star objects
    shellHeap,                \* every Shell object constructed, by identity
    starHeap,                 \* every Star object constructed, by identity
    fanfareInProgress,
    timers,                   \* active setInterval timers of fanfare()
    timersCreated,            \* setInterval calls so far
    hist,                     \* history: what has happened to each object
    log                       \* what the handler that ran last did

vars == << now, loaded, framePending, frames, mostRecentRepaint, framerate,
           mostRecentRandomSpawn, currentRandomSpawnPeriod, shells, stars,
           shellHeap, starHeap, fanfareInProgress, timers, timersCreated,
           hist, log >>

\* the part of the state the handlers' callees change, as one record
World ==
    [ mostRecentRepaint        |-> mostRecentRepaint,
      framerate                |-> framerate,
      mostRecentRandomSpawn    |-> mostRecentRandomSpawn,
      currentRandomSpawnPeriod |-> currentRandomSpawnPeriod,
      shells                   |-> shells,
      stars                    |-> stars,
      shellHeap                |-> shellHeap,
      starHeap                 |-> starHeap,
      hist                     |-> hist,
      log                      |-> log ]

\* the history before anything has happened
EmptyHist ==
    [ detonateCalls |-> << >>,     \* per shell: calls of detonate() on it
      spawns        |-> << >>,     \* per shell: when and in which handler
                                   \* spawn() was called on it
      starsPushed   |-> 0,         \* stars pushed onto the array stars
      visited       |-> {},        \* shells a scan of the loop has visited
      shellRemovals |-> << >>,     \* shells spliced out, in order
      starRemovals  |-> << >>,     \* stars spliced out, in order
      timersCleared |-> {} ]       \* fanfareIds given to clearInterval

Commit(W) ==
    /\ mostRecentRepaint' = W.mostRecentRepaint
    /\ framerate' = W.framerate
    /\ mostRecentRandomSpawn' = W.mostRecentRandomSpawn
    /\ currentRandomSpawnPeriod' = W.currentRandomSpawnPeriod
    /\ shells' = W.shells
    /\ stars' = W.stars
    /\ shellHeap' = W.shellHeap
    /\ starHeap' = W.starHeap
    /\ hist' = W.hist
    /\ log' = W.log

\* the log of a handler that has done nothing yet
EmptyLog(handler) ==
    [ handler        |-> handler,
      clock          |-> 0,
      timer          |-> 0,           \* fanfareId of the timer whose callback ran
      firstFrame     |-> FALSE,
      framerate      |-> Undefined,   \* framerate when the idle spawn was decided
      idleSpawned    |-> FALSE,
      noop           |-> FALSE,       \* fanfare() returned at its guard
      spawnedShells  |-> << >>,       \* shells spawn() was called on
      shellScanStart |-> << >>,       \* the array shells when its scan started
      shellVisited   |-> << >>,       \* shells the scan looked at, in order
      shellUpdated   |-> << >>,       \* shells update() was called on
      detonated      |-> << >>,       \* shells detonate() was called on
      shellRemoved   |-> << >>,       \* shells spliced out of the array
      starScanStart  |-> << >>,
      starUpdated    |-> << >>,       \* stars update() was called on
      starRemoved    |-> << >> ]      \* stars spliced out of the array

\* a faulty splice, which removes nothing
RemoveNothing(seq, i) == seq

RemoveAt(seq, i) == SubSeq(seq, 1, i - 1) \o SubSeq(seq, i + 1, Len(seq))

(***************************************************************************)
(* Spawning and detonating                                                 *)
(***************************************************************************)

\* a faulty resetRandomSpawn(), which resets nothing
resetRandomSpawnNothing(W, clock, period) == W

\* resetRandomSpawn(), period being what getRandomArbitrary returns
resetRandomSpawn(W, clock, period) ==
    [W EXCEPT !.mostRecentRandomSpawn = clock,
              !.currentRandomSpawnPeriod = period]

\* a faulty spawn(), which pushes the shell and leaves spawned false
ShellSpawnUnmarked(W, targetArgument, draw, clock) ==
    LET this == Shell(targetArgument, draw)
        id   == Len(W.shellHeap) + 1
        W1   == resetRandomSpawn(W, clock, draw.period)
    IN  [W1 EXCEPT !.shellHeap = Append(@, this),
                   !.shells = Append(@, id),
                   !.hist.detonateCalls = Append(@, 0),
                   !.hist.spawns = Append(@, [at |-> clock, by |-> W.log.handler]),
                   !.log.spawnedShells = Append(@, id)]

\* new Shell(target).spawn(): the object gets the next identity
ShellSpawn(W, targetArgument, draw, clock) ==
    LET this == [Shell(targetArgument, draw) EXCEPT !.spawned = True]
        id   == Len(W.shellHeap) + 1
        W1   == resetRandomSpawn(W, clock, draw.period)
    IN  [W1 EXCEPT !.shellHeap = Append(@, this),
                   !.shells = Append(@, id),
                   !.hist.detonateCalls = Append(@, 0),
                   !.hist.spawns = Append(@, [at |-> clock, by |-> W.log.handler]),
                   !.log.spawnedShells = Append(@, id)]

\* the i-th of the stars a detonation constructs, after spawn()
SpawnedStar(shell, shellId, draws, i, clock) ==
    [Star(shell, shellId, StarDraw(draws, i)) EXCEPT !.spawned = clock]

\* Shell.prototype.detonate on the shell with identity id
detonate(W, id, draws, clock) ==
    Let([W.shellHeap[id] EXCEPT !.detonated = TRUE], LAMBDA this :
    Let(Len(W.starHeap), LAMBDA first :
        [W EXCEPT !.shellHeap[id] = this,
                  !.starHeap = @ \o [i \in 1..STAR_COUNT |->
                                        SpawnedStar(this, id, draws, i, clock)],
                  !.stars = @ \o [i \in 1..STAR_COUNT |-> first + i],
                  !.hist.detonateCalls[id] = @ + 1,
                  !.hist.starsPushed = @ + STAR_COUNT,
                  !.log.detonated = Append(@, id)]))

(***************************************************************************)
(* The animation loop                                                      *)
(***************************************************************************)

\* a faulty detonation check, which never finds the target passed
exceededTargetNever(shell) == FALSE

\* currentDisplacment > targetDisplacement of the shell scan
exceededTarget(shell) ==
    LET currentDisplacment ==
            calculateDisplacement(getLauncherPosition, shell.currentPosition)
        targetDisplacement ==
            calculateDisplacement(getLauncherPosition, shell.target)
    IN  NGt(currentDisplacment, targetDisplacement)

\* The iteration of the shell loop with index i (counted from 1): its test
\* i <= shells.length and, when that holds, its body.  After
\* shells.splice(i, 1) the loop goes on with the next index.
ShellIteration(W, i, draws, clock) ==
    IF i > Len(W.shells) THEN W
    ELSE
    LET id    == W.shells[i]
        shell == W.shellHeap[id]
        W0 == [W EXCEPT !.log.shellVisited = Append(@, id),
                        !.hist.visited = @ \cup {id}]
    IN  Let(IF exceededTarget(shell) THEN detonate(W0, id, draws, clock)
                                     ELSE W0, LAMBDA W1 :
        IF W1.shellHeap[id].detonated
        THEN [W1 EXCEPT !.shells = RemoveAt(@, i),
                        !.hist.shellRemovals = Append(@, id),
                        !.log.shellRemoved = Append(@, id)]
        ELSE IF NGt(W1.framerate, FRAMERATE_TOLERANCE * FP)
                \/ Truthy(shell.spawned)
        THEN [W1 EXCEPT !.shellHeap[id] = update(@, clock),
                        !.log.shellUpdated = Append(@, id)]
        ELSE W1)

\* the iterations lo..hi of the shell loop, in order; none of them does
\* anything once the index has passed the length of the array
RECURSIVE ShellIterations(_, _, _, _, _)
ShellIterations(W, lo, hi, draws, clock) ==
    IF lo > hi \/ lo > Len(W.shells) THEN W
    ELSE IF lo = hi THEN ShellIteration(W, lo, draws, clock)
    ELSE LET mid == (lo + hi) \div 2
         IN  ShellIterations(ShellIterations(W, lo, mid, draws, clock),
                             mid + 1, hi, draws, clock)

\* The loop over the array shells.  The array does not grow while the loop
\* runs, so the loop ends at the latest after the iteration whose index is
\* the length the array had when the loop started.
ShellScan(W, draws, clock) ==
    ShellIterations([W EXCEPT !.log.shellScanStart = W.shells],
                    1, Len(W.shells), draws, clock)

\* a faulty burn-time check, which finds no star burnt out
burnTimeOverNever(burnTime, star) == FALSE

\* a faulty burn-time check, which finds every star burnt out
burnTimeOverAlways(burnTime, star) == TRUE

\* burnTime > star.duration
burnTimeOver(burnTime, star) == NGt(burnTime, star.duration)

\* The iteration of the star loop with index i (counted from 1).
StarIteration(W, i, clock) ==
    IF i > Len(W.stars) THEN W
    ELSE
    LET id == W.stars[i]
    IN  Let(update(W.starHeap[id], clock), LAMBDA star :
        LET burnTime == NSub(clock, star.spawned)
            W1 == [W EXCEPT !.starHeap[id] = star,
                            !.log.starUpdated = Append(@, id)]
        IN  IF burnTimeOver(burnTime, star)
            THEN [W1 EXCEPT !.stars = RemoveAt(@, i),
                            !.hist.starRemovals = Append(@, id),
                            !.log.starRemoved = Append(@, id)]
            ELSE W1)

\* the iterations lo..hi of the star loop, in order
RECURSIVE StarIterations(_, _, _, _)
StarIterations(W, lo, hi, clock) ==
    IF lo > hi \/ lo > Len(W.stars) THEN W
    ELSE IF lo = hi THEN StarIteration(W, lo, clock)
    ELSE LET mid == (lo + hi) \div 2
         IN  StarIterations(StarIterations(W, lo, mid, clock),
                            mid + 1, hi, clock)

\* The loop over the array stars, which does not grow while the loop runs.
StarScan(W, clock) ==
    StarIterations([W EXCEPT !.log.starScanStart = W.stars],
                   1, Len(W.stars), clock)

\* a faulty idle spawn, without the framerate gate
IdleSpawnFiresUngated(W, clock) ==
    LET change == NSub(clock, W.mostRecentRandomSpawn)
    IN  \/ ~Truthy(W.mostRecentRandomSpawn)
        \/ NGt(change, W.currentRandomSpawnPeriod)

\* a faulty idle spawn, which does not wait for the spawn period
IdleSpawnFiresEarly(W, clock) == NGt(W.framerate, (FRAMERATE_TOLERANCE * FP))

\* whether animationLoop, run at clock, spawns a random firework
IdleSpawnFires(W, clock) ==
    LET change == NSub(clock, W.mostRecentRandomSpawn)
    IN  /\ NGt(W.framerate, (FRAMERATE_TOLERANCE * FP))
        /\ \/ ~Truthy(W.mostRecentRandomSpawn)
           \/ NGt(change, W.currentRandomSpawnPeriod)

\* the framerate bookkeeping of animationLoop
TrackFramerate(W, timeNow) ==
    IF ~Truthy(W.mostRecentRepaint)
    THEN [W EXCEPT !.mostRecentRepaint = timeNow,
                   !.log.firstFrame = TRUE]
    ELSE LET change == NSub(timeNow, W.mostRecentRepaint)
         IN  [W EXCEPT !.framerate = NDiv(FP, change),
                       !.mostRecentRepaint = timeNow]

\* animationLoop(), every call of getArbitraryTime() in it returning clock.
\* draw: what the Shell constructor and its spawn() draw; draws: what the
\* Star constructors of a detonation draw.
animationLoop(W, draw, draws, clock) ==
    LET timeNow == clock
    IN  Let(TrackFramerate([W EXCEPT !.log = [EmptyLog("frame") EXCEPT
                                                 !.clock = clock]],
                           timeNow), LAMBDA W1 :
        Let([W1 EXCEPT !.log.framerate = W1.framerate], LAMBDA W2 :
        Let(IF IdleSpawnFires(W2, timeNow)
            THEN [ShellSpawn(W2, getRandomTarget(draw.pixel), draw, clock)
                      EXCEPT !.mostRecentRandomSpawn = timeNow,
                             !.log.idleSpawned = TRUE]
            ELSE W2, LAMBDA W3 :
            StarScan(ShellScan(W3, draws, clock), clock))))

(***************************************************************************)
(* Handlers                                                                *)
(***************************************************************************)

\* What a Shell construction followed by spawn() may draw: pixel is the
\* position Shell.getRandomTarget() draws (not drawn when the target is
\* given), color the value of Shell.getRandomColor(), period the value of
\* getRandomArbitrary in resetRandomSpawn().
ShellDraws ==
    { [ pixel  |-> << CanvasWidth \div 2, 0 >>,
        color  |-> "hsl(0,70%,50%)",
        period |-> MINIMUM_RANDOM_SPAWN_PERIOD * FP ],
      [ pixel  |-> << CanvasWidth, CanvasHeight \div 4 >>,
        color  |-> "hsl(360,100%,70%)",
        period |-> MAXIMUM_RANDOM_SPAWN_PERIOD * FP - 1 ] }

\* the draws of a handler that constructs no shell
NoShellDraws == { CHOOSE draw \in ShellDraws : TRUE }

Init ==
    /\ now = 1
    /\ loaded = FALSE
    /\ framePending = 0
    /\ frames = 0
    /\ mostRecentRepaint = Undefined
    /\ framerate = Undefined
    /\ mostRecentRandomSpawn = Undefined
    /\ currentRandomSpawnPeriod = Undefined
    /\ shells = << >>
    /\ stars = << >>
    /\ shellHeap = << >>
    /\ starHeap = << >>
    /\ fanfareInProgress = FALSE
    /\ timers = {}
    /\ timersCreated = 0
    /\ hist = EmptyHist
    /\ log = EmptyLog("none")

\* the draws of a handler in which no shell detonates
NoStarDraws == { CHOOSE draws \in StarDraws : TRUE }

\* whether the shell loop, started in W, can find a shell past its target
CanDetonate(W) ==
    \E i \in 1..Len(W.shells) : exceededTarget(W.shellHeap[W.shells[i]])

\* One run of animationLoop d after the handler before it; it ends by
\* requesting the next animation frame.
RunFrame(W, d) ==
    LET clock == now + d
        fires == IdleSpawnFires(TrackFramerate(W, clock), clock)
    IN  /\ fires => Len(shellHeap) < MaxShells
        /\ now' = now + d
        /\ frames' = frames + 1
        /\ \E draw \in IF fires THEN ShellDraws ELSE NoShellDraws,
              draws \in IF CanDetonate(W) THEN StarDraws ELSE NoStarDraws :
              \E W1 \in {animationLoop(W, draw, draws, clock)} : Commit(W1)

\* The window's load event: its listeners animationLoop, resizeCanvas and
\* resetRandomSpawn run in the order they were added.
Load ==
    /\ ~loaded
    /\ loaded' = TRUE
    /\ framePending' = framePending + 1
    /\ frames' = frames + 1
    /\ now' = now
    /\ \E draw \in ShellDraws, draws \in NoStarDraws :
          \E W1 \in {resetRandomSpawn(animationLoop(World, draw, draws, now),
                                      now, draw.period)} : Commit(W1)
    /\ UNCHANGED << fanfareInProgress, timers, timersCreated >>

\* a faulty animation frame, which requests no further frame
FrameStops(d) ==
    /\ framePending > 0
    /\ framePending' = framePending - 1
    /\ RunFrame(World, d)
    /\ UNCHANGED << loaded, fanfareInProgress, timers, timersCreated >>

\* a faulty animation frame, which requests two further frames
FrameRequestsTwice(d) ==
    /\ framePending > 0
    /\ framePending' = (framePending - 1) + 2
    /\ RunFrame(World, d)
    /\ UNCHANGED << loaded, fanfareInProgress, timers, timersCreated >>

\* A requested animation frame runs animationLoop, d after the handler
\* before it.
Frame(d) ==
    /\ framePending > 0
    /\ framePending' = (framePending - 1) + 1
    /\ RunFrame(World, d)
    /\ UNCHANGED << loaded, fanfareInProgress, timers, timersCreated >>

\* The click listener of the canvas.
Click(pixel) ==
    /\ Len(shellHeap) < MaxShells
    /\ \E draw \in ShellDraws :
          \E W1 \in {ShellSpawn([World EXCEPT !.log = [EmptyLog("click") EXCEPT !.clock = now]],
                                 mapFromCanvas(<< Pixels(pixel[1]), Pixels(pixel[2]) >>),
                                 draw, now)} : Commit(W1)
    /\ UNCHANGED << now, loaded, framePending, frames, fanfareInProgress,
                    timers, timersCreated >>

\* fanfare() returning at its guard
fanfareReturns ==
    /\ log' = [EmptyLog("keyup") EXCEPT !.clock = now, !.noop = TRUE]
    /\ UNCHANGED << fanfareInProgress, timers, timersCreated >>

\* fanfare() past its guard: it sets the flag and the interval timer.  A
\* timer is the closure of its callback (fanfareId, start) and the clock
\* value of its last call.
fanfareStarts ==
    /\ fanfareInProgress' = TRUE
    /\ timers' = timers \cup
           {[fanfareId |-> timersCreated + 1, start |-> now, lastCall |-> now]}
    /\ timersCreated' = timersCreated + 1
    /\ log' = [EmptyLog("keyup") EXCEPT !.clock = now]

\* a faulty fanfare(), without its guard
fanfareUnguarded ==
    /\ fanfareStarts
    /\ UNCHANGED << now, loaded, framePending, frames, mostRecentRepaint,
                    framerate, mostRecentRandomSpawn, currentRandomSpawnPeriod,
                    shells, stars, shellHeap, starHeap, hist >>

\* fanfare()
fanfare ==
    /\ IF fanfareInProgress THEN fanfareReturns ELSE fanfareStarts
    /\ UNCHANGED << now, loaded, framePending, frames, mostRecentRepaint,
                    framerate, mostRecentRandomSpawn, currentRandomSpawnPeriod,
                    shells, stars, shellHeap, starHeap, hist >>

\* The keyup listener of the window.
KeyUp == fanfare

\* a faulty end-of-fanfare check, which never finds the fanfare over
fanfareNeverOver(timeSinceStart, fanfareId) == FALSE

\* (timeSinceStart > 4) && fanfareId
fanfareOver(timeSinceStart, fanfareId) ==
    NGt(timeSinceStart, FANFARE_SECONDS * FP) /\ fanfareId # 0

\* The callback of the interval timer that fanfare() set.  The interval is
\* not zero: the callback runs at most once per value of the clock, and not
\* at the value at which the timer was set.
FanfareTimer(timer) ==
    LET timeSinceStart == NSub(now, timer.start)
        over == fanfareOver(timeSinceStart, timer.fanfareId)
        W0 == [World EXCEPT !.log = [EmptyLog("timer") EXCEPT
                                        !.clock = now,
                                        !.timer = timer.fanfareId]]
    IN  /\ timer \in timers
        /\ timer.lastCall < now
        /\ Len(shellHeap) < MaxShells
        /\ \E draw \in ShellDraws :
              \E W2 \in {ShellSpawn(W0, << >>, draw, now)} :
                 Commit(IF over
                        THEN [W2 EXCEPT !.hist.timersCleared =
                                            @ \cup {timer.fanfareId}]
                        ELSE W2)
        /\ IF over
           THEN /\ timers' = timers \ {timer}
                /\ fanfareInProgress' = FALSE
           ELSE /\ timers' = (timers \ {timer}) \cup
                                 {[timer EXCEPT !.lastCall = now]}
                /\ UNCHANGED fanfareInProgress
        /\ UNCHANGED << now, loaded, framePending, frames, timersCreated >>

\* A call of detonate() on a shell from outside the animation loop.
DetonateCall(id) ==
    /\ id \in 1..Len(shellHeap)
    /\ hist.detonateCalls[id] < MaxDetonateCalls
    /\ \E draws \in StarDraws :
          \E W1 \in {detonate([World EXCEPT !.log = [EmptyLog("detonate") EXCEPT !.clock = now]],
                               id, draws, now)} : Commit(W1)
    /\ UNCHANGED << now, loaded, framePending, frames, fanfareInProgress,
                    timers, timersCreated >>

\* the targets of shells constructed by new Shell(target): the launcher
\* position itself, half a meter above it, and the top centre of the canvas
ShellTargets ==
    { getLauncherPosition,
      << getLauncherPosition[1], NAdd(getLauncherPosition[2], FP \div 2) >>,
      mapFromCanvas(<< Pixels(CanvasWidth \div 2), Pixels(0) >>) }

\* the velocities of bodies constructed by new Body(...)
BodyVelocities == { << 0, 0 >>, << 3 * FP, 4 * FP >> }

\* new Shell(target).spawn()
NewShell(target) ==
    /\ Len(shellHeap) < MaxShells
    /\ \E draw \in ShellDraws :
          \E W1 \in {ShellSpawn([World EXCEPT !.log = [EmptyLog("spawn") EXCEPT
                                                          !.clock = now]],
                                 target, draw, now)} : Commit(W1)
    /\ UNCHANGED << now, loaded, framePending, frames, fanfareInProgress,
                    timers, timersCreated >>

\* new Body([0, 0], velocity, [0, 0], STAR_MASS, STAR_DRAG_COEFFICIENT,
\* STAR_CROSS_SECTIONAL_AREA): an object of the base class, which has no
\* method getAccelerationDueToThrust.  It is kept with the stars, by identity.
NewBody(velocity) ==
    /\ starHeap' = Append(starHeap,
           [class |-> "Body"] @@
           Body(<< 0, 0 >>, velocity, << 0, 0 >>, STAR_MASS,
                STAR_DRAG_COEFFICIENT, STAR_CROSS_SECTIONAL_AREA))
    /\ log' = [EmptyLog("construct") EXCEPT !.clock = now]
    /\ UNCHANGED << now, loaded, framePending, frames, mostRecentRepaint,
                    framerate, mostRecentRandomSpawn, currentRandomSpawnPeriod,
                    shells, stars, shellHeap, fanfareInProgress, timers,
                    timersCreated, hist >>

\* A call of update() on a shell from outside the animation loop, d after
\* the call before it.
UpdateShell(id, d) ==
    /\ id \in 1..Len(shellHeap)
    /\ now' = now + d
    /\ shellHeap' = [shellHeap EXCEPT ![id] = update(@, now + d)]
    /\ log' = [EmptyLog("update") EXCEPT !.clock = now + d,
                                         !.shellUpdated = << id >>]
    /\ UNCHANGED << loaded, framePending, frames, mostRecentRepaint,
                    framerate, mostRecentRandomSpawn, currentRandomSpawnPeriod,
                    shells, stars, starHeap, fanfareInProgress, timers,
                    timersCreated, hist >>

\* A call of update() on an object of the base class.
UpdateBody(id, d) ==
    /\ id \in 1..Len(starHeap)
    /\ now' = now + d
    /\ starHeap' = [starHeap EXCEPT ![id] = update(@, now + d)]
    /\ log' = [EmptyLog("update") EXCEPT !.clock = now + d,
                                         !.starUpdated = << id >>]
    /\ UNCHANGED << loaded, framePending, frames, mostRecentRepaint,
                    framerate, mostRecentRandomSpawn, currentRandomSpawnPeriod,
                    shells, stars, shellHeap, fanfareInProgress, timers,
                    timersCreated, hist >>

(***************************************************************************)
(* Specifications                                                          *)
(***************************************************************************)

\* The page: every handler, under frames that are fast or stall; no key
\* comes after KeyUpDeadline.
Next ==
    \/ Load
    \/ \E d \in ClockSteps : frames < MaxFrames /\ now + d <= MaxTime /\ Frame(d)
    \/ \E pixel \in ClickPixels : Click(pixel)
    \/ now <= KeyUpDeadline /\ KeyUp
    \/ \E timer \in timers : FanfareTimer(timer)

Spec == Init /\ [][Next]_vars

\* Shells and calls of their method detonate().
NextDetonate ==
    \/ \E pixel \in ClickPixels : Click(pixel)
    \/ \E id \in 1..MaxShells : DetonateCall(id)

SpecDetonate == Init /\ [][NextDetonate]_vars

(***************************************************************************)
(* Scheduling.  The browser runs the load listeners, runs a requested      *)
(* animation frame and calls the callback of an active interval timer.     *)
(* Each kind of step is told from every other by what it does to loaded,   *)
(* to frames and now, and to timers, so that the fairness conditions below *)
(* are stated on these changes: FrameRuns(d) is enabled exactly when       *)
(* Frame(d) is, and a step of a specification is a FrameRuns(d) step       *)
(* exactly when it is a Frame(d) step; likewise for the other two.         *)
(***************************************************************************)

LoadRuns == ~loaded /\ loaded' = TRUE

FrameRuns(d) ==
    /\ d > 0
    /\ framePending > 0
    /\ IdleSpawnFires(TrackFramerate(World, now + d), now + d)
          => Len(shellHeap) < MaxShells
    /\ frames' = frames + 1
    /\ now' = now + d

TimerRuns(timer) ==
    /\ timer.lastCall < now
    /\ Len(shellHeap) < MaxShells
    /\ timers' \in { timers \ {timer},
                     (timers \ {timer}) \cup {[timer EXCEPT !.lastCall = now]} }

\* The flight of shells that clicks spawn, under frames that keep running:
\* no click comes after ClickDeadline, no frame after FlightMaxTime.
FlightFrame == \E d \in FlightSteps : now + d <= FlightMaxTime /\ Frame(d)

FlightFrameRuns ==
    \E d \in FlightSteps : now + d <= FlightMaxTime /\ FrameRuns(d)

NextFlight ==
    \/ Load
    \/ FlightFrame
    \/ \E pixel \in ClickPixels : now <= ClickDeadline /\ Click(pixel)

SpecFlight ==
    Init /\ [][NextFlight]_vars /\ WF_loaded(LoadRuns)
         /\ WF_<< frames, now >>(FlightFrameRuns)

\* A fanfare, under frames and timer callbacks that keep running: no key
\* comes after KeyUpDeadline, no frame after FanfareMaxTime.
FanfareFrame == \E d \in FanfareSteps : now + d <= FanfareMaxTime /\ Frame(d)

FanfareFrameRuns ==
    \E d \in FanfareSteps : now + d <= FanfareMaxTime /\ FrameRuns(d)

FanfareCallback == \E timer \in timers : FanfareTimer(timer)

FanfareCallbackRuns == \E timer \in timers : TimerRuns(timer)

NextFanfare ==
    \/ Load
    \/ FanfareFrame
    \/ now <= KeyUpDeadline /\ KeyUp
    \/ FanfareCallback

SpecFanfare ==
    Init /\ [][NextFanfare]_vars /\ WF_loaded(LoadRuns)
         /\ WF_<< frames, now >>(FanfareFrameRuns)
         /\ WF_timers(FanfareCallbackRuns)

\* The constructors and the method update(): shells and bodies constructed
\* with any target and velocity, and calls of update() on them at clock
\* values that may repeat.
NextBody ==
    \/ \E target \in ShellTargets :
          /\ now <= ConstructDeadline
          /\ Len(shellHeap) + Len(starHeap) < MaxBodies
          /\ NewShell(target)
    \/ \E velocity \in BodyVelocities :
          /\ now <= ConstructDeadline
          /\ Len(shellHeap) + Len(starHeap) < MaxBodies
          /\ NewBody(velocity)
    \/ \E id \in 1..MaxShells, d \in BodySteps :
          now + d <= BodyMaxTime /\ UpdateShell(id, d)
    \/ \E id \in 1..MaxBodies, d \in BodySteps :
          now + d <= BodyMaxTime /\ UpdateBody(id, d)

SpecBody == Init /\ [][NextBody]_vars

\* Ticks at clock values that may repeat, and the flight of shells that
\* clicks spawn until ClickDeadline.
TickFrame ==
    \E d \in TickSteps :
        frames < MaxTickFrames /\ now + d <= TickMaxTime /\ Frame(d)

NextTicks ==
    \/ Load
    \/ TickFrame
    \/ \E pixel \in TickPixels : now <= ClickDeadline /\ Click(pixel)

SpecTicks == Init /\ [][NextTicks]_vars

\* clicks at the bottom centre of the canvas
BurstPixels == { << CanvasWidth \div 2, CanvasHeight >> }

\* Shells that clicks spawn one after the other, so that one detonates
\* while the stars of another burn out.
BurstFrame == \E d \in FlightSteps : now + d <= BurstMaxTime /\ Frame(d)

NextBurst ==
    \/ Load
    \/ BurstFrame
    \/ \E pixel \in BurstPixels : now <= BurstClickDeadline /\ Click(pixel)

SpecBurst == Init /\ [][NextBurst]_vars

\* The stars of shells that clicks spawn, under frames that keep running
\* until every star has burnt out: no click comes after ClickDeadline, no
\* frame after BurnMaxTime.
BurnFrame == \E d \in FlightSteps : now + d <= BurnMaxTime /\ Frame(d)

BurnFrameRuns ==
    \E d \in FlightSteps : now + d <= BurnMaxTime /\ FrameRuns(d)

NextBurn ==
    \/ Load
    \/ BurnFrame
    \/ \E pixel \in BurstPixels : now <= ClickDeadline /\ Click(pixel)

SpecBurn ==
    Init /\ [][NextBurn]_vars /\ WF_loaded(LoadRuns)
         /\ WF_<< frames, now >>(BurnFrameRuns)

(***************************************************************************)
(* Properties                                                              *)
(***************************************************************************)

Range(seq) == { seq[i] : i \in 1..Len(seq) }

Occurrences(seq, x) == Cardinality({ i \in 1..Len(seq) : seq[i] = x })

\* the shells and the stars in the arrays
ActiveShells == Range(shells)

ActiveStars == Range(stars)

\* the last handler was a tick of the animation loop, which has ended
TickEnded == log.handler = "frame"

\* the number of entries of the array stars that come from shell id
ActiveStarsFrom(id) ==
    Cardinality({ i \in 1..Len(stars) : starHeap[stars[i]].shell = id })

\* the number of stars from shell id ever pushed onto the array stars
StarsEverFrom(id) ==
    Cardinality({ n \in 1..Len(starHeap) : starHeap[n].shell = id })

\* the burn time of star id at its check in the tick that has ended
BurnTimeAtCheck(id) == NSub(log.clock, starHeap[id].spawned)

StraightAbove(shell) ==
    /\ shell.target[1] = getLauncherPosition[1]
    /\ shell.target[2] > getLauncherPosition[2]

\* C1: detonate() is idempotent: a shell on which detonate() has been called,
\* once or twice in a row, has detonated = true and exactly STAR_COUNT stars
\* from it in the array stars (one batch, not two).
C1_DetonateIdempotent ==
    \A id \in 1..Len(shellHeap) :
        hist.detonateCalls[id] >= 1 =>
            /\ shellHeap[id].detonated
            /\ ActiveStarsFrom(id) = STAR_COUNT

\* C2: in every tick, every shell that is in the array shells when the shell
\* scan starts is visited exactly once in that tick, also when other shells
\* are removed during the scan.
C2_EveryShellVisitedOnce ==
    TickEnded =>
        \A id \in Range(log.shellScanStart) :
            Occurrences(log.shellVisited, id) = 1

\* C3: in every tick, every star that is in the array stars when the star
\* scan starts has update() called on it exactly once in that tick.
C3_EveryStarUpdatedOnce ==
    TickEnded =>
        \A id \in Range(log.starScanStart) :
            Occurrences(log.starUpdated, id) = 1

\* C4: a shell spawned toward a target straight above the launcher (its
\* initial velocity is zero) eventually, under frames that keep running with
\* advancing time, has had detonate() called on it exactly once, exactly
\* STAR_COUNT stars from it have been pushed onto the array stars, and it is
\* no longer in the array shells; detonate() is never called on it twice.
C4_ShellDetonatesOnce ==
    \A id \in 1..MaxShells :
        /\ [](Len(shellHeap) >= id => hist.detonateCalls[id] <= 1)
        /\ (Len(shellHeap) >= id /\ StraightAbove(shellHeap[id]))
              ~> (/\ Len(shellHeap) >= id
                  /\ hist.detonateCalls[id] = 1
                  /\ StarsEverFrom(id) = STAR_COUNT
                  /\ id \notin ActiveShells)

C4_Witness ==
    \E id \in 1..Len(shellHeap) :
        /\ StraightAbove(shellHeap[id])
        /\ hist.detonateCalls[id] = 1
        /\ StarsEverFrom(id) = STAR_COUNT
        /\ id \notin ActiveShells
        /\ frames > 4

\* C5: at the end of every tick no shell with detonated = true is in the
\* array shells: a shell that detonates in a tick is removed in that tick
\* and is not updated in it.
C5_DetonatedShellRemoved ==
    TickEnded =>
        /\ \A id \in ActiveShells : ~shellHeap[id].detonated
        /\ \A id \in Range(log.detonated) :
              /\ id \in Range(log.shellRemoved)
              /\ id \notin Range(log.shellUpdated)

C5_Witness ==
    /\ TickEnded
    /\ log.detonated # << >>
    /\ shells # << >>

\* C6: a tick removes a star from the array stars only if, at its check in
\* that tick, now - spawned > duration: a star whose burn time is at most
\* its duration (as at its spawn time) stays.
C6_RemovedOnlyIfBurnt ==
    TickEnded =>
        /\ \A id \in Range(log.starRemoved) :
              NGt(BurnTimeAtCheck(id), starHeap[id].duration)
        /\ \A id \in Range(log.starUpdated) :
              ~NGt(BurnTimeAtCheck(id), starHeap[id].duration)
                  => id \in ActiveStars

C6_Witness ==
    /\ TickEnded
    /\ log.starRemoved # << >>
    /\ \E id \in Range(log.starUpdated) :
          /\ id \in ActiveStars
          /\ ~NGt(BurnTimeAtCheck(id), starHeap[id].duration)

\* C7: at the end of every tick, no star that was in the array stars when
\* the star scan started and whose burn time exceeded its duration during
\* the scan is still in the array.
C7_BurntStarsRemoved ==
    TickEnded =>
        \A id \in Range(log.starScanStart) :
            NGt(BurnTimeAtCheck(id), starHeap[id].duration)
                => id \notin ActiveStars

\* C8: at most one fanfare timer is active at any time, and fanfare() called
\* while fanfareInProgress is true sets no timer and changes no state.
C8_OneFanfareTimer ==
    /\ [](Cardinality(timers) <= 1)
    /\ [][(fanfareInProgress /\ log'.handler = "keyup")
             => UNCHANGED << now, loaded, framePending, frames,
                             mostRecentRepaint, framerate,
                             mostRecentRandomSpawn, currentRandomSpawnPeriod,
                             shells, stars, shellHeap, starHeap,
                             fanfareInProgress, timers, timersCreated >>]_vars

C8_Witness ==
    /\ log.handler = "keyup"
    /\ log.noop
    /\ Cardinality(timers) = 1
    /\ fanfareInProgress

\* C9: every fanfare ends: once started, under timer callbacks that keep
\* running and a clock that advances, its timer is eventually cleared and
\* fanfareInProgress is false again; the callback of a cleared timer never
\* runs again, so that the fanfare spawns no further shell.
C9_FanfareEnds ==
    /\ fanfareInProgress ~> (~fanfareInProgress /\ timers = {})
    /\ [][(log'.handler = "timer" /\ log' # log)
             => log'.timer \notin hist.timersCleared]_vars

C9_Witness ==
    /\ timersCreated > 0
    /\ ~fanfareInProgress
    /\ timers = {}
    /\ hist.timersCleared # {}
    /\ log.handler = "frame"

\* C10: no tick whose framerate is at most FRAMERATE_TOLERANCE spawns a
\* random firework, nor does the first tick, in which no framerate has been
\* measured.
C10_NoIdleSpawnAtLowFramerate ==
    TickEnded =>
        /\ ~NGt(log.framerate, FRAMERATE_TOLERANCE * FP) => ~log.idleSpawned
        /\ log.firstFrame => ~log.idleSpawned

\* a tick at a low framerate in which the spawn period had passed
C10_Witness ==
    /\ TickEnded
    /\ IsNumber(log.framerate)
    /\ ~NGt(log.framerate, FRAMERATE_TOLERANCE * FP)
    /\ NGt(NSub(log.clock, mostRecentRandomSpawn), currentRandomSpawnPeriod)
    /\ ~log.idleSpawned

\* a value getRandomArbitrary(MINIMUM_RANDOM_SPAWN_PERIOD,
\* MAXIMUM_RANDOM_SPAWN_PERIOD) can return
InSpawnPeriodRange(period) ==
    /\ IsNumber(period)
    /\ period >= MINIMUM_RANDOM_SPAWN_PERIOD * FP
    /\ period < MAXIMUM_RANDOM_SPAWN_PERIOD * FP

\* the tick that has ended spawned a random firework
IdleSpawnEnded == log.handler = "frame" /\ log.idleSpawned

\* C11: a tick in which the idle spawn fires adds exactly one shell to the
\* array shells, redraws currentRandomSpawnPeriod to a value in [2, 5) and
\* sets mostRecentRandomSpawn to the time of the tick; it fires only when
\* more than the period drawn last has passed since the baseline.
C11_IdleSpawnResets ==
    [][IdleSpawnEnded' =>
          /\ log'.spawnedShells = << Len(shellHeap) + 1 >>
          /\ Len(shellHeap') = Len(shellHeap) + 1
          /\ Range(shells') \ Range(shells) = { Len(shellHeap) + 1 }
          /\ Occurrences(shells', Len(shellHeap) + 1) = 1
          /\ InSpawnPeriodRange(currentRandomSpawnPeriod')
          /\ mostRecentRandomSpawn' = now'
          /\ InSpawnPeriodRange(currentRandomSpawnPeriod)
          /\ NGt(NSub(now', mostRecentRandomSpawn), currentRandomSpawnPeriod)
      ]_vars

\* an idle spawn, in a tick before which a shell was in flight
C11_Witness ==
    /\ IdleSpawnEnded
    /\ Len(shellHeap) = 2
    /\ Len(shells) = 2

\* C12: every call of spawn() on a shell, in the click listener, in the
\* fanfare callback or in the idle spawn, sets mostRecentRandomSpawn to the
\* time of the call and redraws the period in [2, 5); the idle spawn fires
\* only when more than 2 seconds have passed since every earlier spawn.
C12_SpawnResetsIdleSpawn ==
    [][/\ log'.spawnedShells # << >> =>
             /\ mostRecentRandomSpawn' = now'
             /\ InSpawnPeriodRange(currentRandomSpawnPeriod')
       /\ IdleSpawnEnded' =>
             \A id \in 1..Len(shellHeap) :
                NGt(NSub(now', hist.spawns[id].at),
                    MINIMUM_RANDOM_SPAWN_PERIOD * FP)
      ]_vars

\* an idle spawn after a spawn by the fanfare callback
C12_Witness ==
    /\ IdleSpawnEnded
    /\ \E id \in 1..Len(shellHeap) : hist.spawns[id].by = "timer"

\* update() was called last, on this shell or this object of the base class
ShellUpdateEnded(id) == log.handler = "update" /\ log.shellUpdated = << id >>

BodyUpdateEnded(id) == log.handler = "update" /\ log.starUpdated = << id >>

\* position, velocity and acceleration
Motion(body) ==
    << body.currentPosition, body.currentVelocity, body.currentAcceleration >>

\* C13: a call of update() on a body whose lastUpdate is still null, as the
\* constructor left it, sets lastUpdate to the time of the call and changes
\* nothing else: position, velocity and acceleration stay.
C13_FirstUpdateOnlyRecords ==
    [][/\ \A id \in 1..Len(shellHeap) :
             (ShellUpdateEnded(id)' /\ shellHeap[id].lastUpdate = Null) =>
                 /\ Motion(shellHeap'[id]) = Motion(shellHeap[id])
                 /\ shellHeap'[id] = [shellHeap[id] EXCEPT !.lastUpdate = now']
       /\ \A id \in 1..Len(starHeap) :
             (BodyUpdateEnded(id)' /\ starHeap[id].lastUpdate = Null) =>
                 /\ Motion(starHeap'[id]) = Motion(starHeap[id])
                 /\ starHeap'[id] = [starHeap[id] EXCEPT !.lastUpdate = now']
      ]_vars

\* a shell with an acceleration and a moving body, each after its first
\* update()
C13_Witness ==
    /\ \E id \in 1..Len(shellHeap) :
          /\ shellHeap[id].lastUpdate # Null
          /\ shellHeap[id].currentPosition = getLauncherPosition
          /\ shellHeap[id].currentVelocity = << 0, 0 >>
          /\ IsNumber(shellHeap[id].currentAcceleration[2])
          /\ shellHeap[id].currentAcceleration[2] > 0
    /\ \E id \in 1..Len(starHeap) :
          /\ BodyUpdateEnded(id)
          /\ starHeap[id].lastUpdate = now
          /\ starHeap[id].currentPosition = << 0, 0 >>
          /\ starHeap[id].currentVelocity = << 3 * FP, 4 * FP >>

\* every body constructed so far
Bodies == Range(shellHeap) \cup Range(starHeap)

\* fluid densities: none, and that of air
FluidDensities == { 0, AIR_DENSITY }

\* C16: calculateAccelerationDueToDrag returns [0, 0] for the velocity
\* [0, 0], with the drag coefficient, area and mass of any body and any
\* fluid density.
C16_NoDragAtRest ==
    \A body \in Bodies, fluidDensity \in FluidDensities :
        (body.currentVelocity = << 0, 0 >> /\ body.mass > 0) =>
            calculateAccelerationDueToDrag(fluidDensity, body.dragCoefficient,
                body.crossSectionalArea, body.currentVelocity, body.mass)
                = << 0, 0 >>

\* C17: an integrating call of update() on a body of the base class (it has
\* no thrust) whose velocity is [0, 0] leaves it with the acceleration
\* [0, ACCELERATION_DUE_TO_GRAVITY]: no drag, gravity, no NaN.
C17_RestingBodyFalls ==
    [][\A id \in 1..Len(starHeap) :
          (/\ BodyUpdateEnded(id)'
           /\ Truthy(starHeap[id].lastUpdate)
           /\ starHeap[id].currentVelocity = << 0, 0 >>) =>
              /\ starHeap'[id].currentAcceleration =
                     << 0, ACCELERATION_DUE_TO_GRAVITY >>
              /\ IsNumber(starHeap'[id].currentAcceleration[2])
      ]_vars

\* a body constructed at rest, after its first integrating update(), 400 ms
\* after the call that set lastUpdate
C17_Witness ==
    \E id \in 1..Len(starHeap) :
        /\ BodyUpdateEnded(id)
        /\ starHeap[id].currentPosition = << 0, 0 >>
        /\ starHeap[id].currentVelocity = << 0, 0 >>
        /\ starHeap[id].currentAcceleration = << 0, ACCELERATION_DUE_TO_GRAVITY >>
        /\ starHeap[id].lastUpdate = now

\* neither NaN nor an infinity is stored in the body
NumbersOnly(body) ==
    \A i \in 1..2 :
        /\ IsNumber(body.currentPosition[i])
        /\ IsNumber(body.currentVelocity[i])
        /\ IsNumber(body.currentAcceleration[i])

\* C18: an integrating call of update() at a clock value that is not above
\* lastUpdate (dt <= 0) leaves position, velocity and acceleration as they
\* were, and stores neither NaN nor an infinity.
C18_NoTimeNoUpdate ==
    [][/\ \A id \in 1..Len(shellHeap) :
             (/\ ShellUpdateEnded(id)'
              /\ Truthy(shellHeap[id].lastUpdate)
              /\ now' <= shellHeap[id].lastUpdate
              /\ NumbersOnly(shellHeap[id])) =>
                 /\ Motion(shellHeap'[id]) = Motion(shellHeap[id])
                 /\ NumbersOnly(shellHeap'[id])
       /\ \A id \in 1..Len(starHeap) :
             (/\ BodyUpdateEnded(id)'
              /\ Truthy(starHeap[id].lastUpdate)
              /\ now' <= starHeap[id].lastUpdate
              /\ NumbersOnly(starHeap[id])) =>
                 /\ Motion(starHeap'[id]) = Motion(starHeap[id])
                 /\ NumbersOnly(starHeap'[id])
      ]_vars

\* the target is the launcher position or less than 1 meter from it
NearLauncher(target) ==
    LET displacement == calculateDisplacement(getLauncherPosition, target)
    IN  IsNumber(displacement) /\ displacement < FP

\* C20: no shell whose target is the launcher position, or less than 1 meter
\* from it, is in the array shells.
C20_NearTargetRejected ==
    \A id \in ActiveShells : ~NearLauncher(shellHeap[id].target)

\* the shell's displacement from the launcher is its target's, or more
ReachedTarget(shell) ==
    LET currentDisplacment ==
            calculateDisplacement(getLauncherPosition, shell.currentPosition)
        targetDisplacement ==
            calculateDisplacement(getLauncherPosition, shell.target)
    IN  /\ ~IsNaN(currentDisplacment)
        /\ ~IsNaN(targetDisplacement)
        /\ currentDisplacment >= targetDisplacement

\* C14: in every tick, detonate() is called on every shell the scan visits
\* that has not detonated and whose displacement from the launcher is equal
\* to or greater than the displacement of its target from the launcher.
C14_DetonatesAtTarget ==
    [][\A id \in 1..Len(shellHeap) :
          (/\ log'.handler = "frame"
           /\ id \in Range(log'.shellVisited)
           /\ ~shellHeap[id].detonated
           /\ ReachedTarget(shellHeap[id])) =>
              id \in Range(log'.detonated)
      ]_vars

\* C19: a tick at the clock value of the tick before it (dt = 0) leaves
\* framerate as it was, and framerate is never an infinity.
C19_NoFramerateWithoutTime ==
    [][(/\ log'.handler = "frame"
        /\ Truthy(mostRecentRepaint)
        /\ now' = mostRecentRepaint) =>
           /\ framerate' = framerate
           /\ ~IsInf(framerate')
      ]_vars

NoDuplicates(seq) == Cardinality(Range(seq)) = Len(seq)

\* C15: after any interleaving of ticks, fanfare callbacks and clicks, no
\* shell is twice in the array shells and no star twice in the array stars;
\* the array shells holds only Shell objects and the array stars only Star
\* objects, so that no object is in both; an object removed from its array
\* is not in it again, and is removed at most once.
C15_ActiveSetsDisjoint ==
    /\ NoDuplicates(shells)
    /\ NoDuplicates(stars)
    /\ \A id \in ActiveShells : shellHeap[id].class = "Shell"
    /\ \A id \in ActiveStars : starHeap[id].class = "Star"
    /\ ActiveShells \cap Range(hist.shellRemovals) = {}
    /\ ActiveStars \cap Range(hist.starRemovals) = {}
    /\ NoDuplicates(hist.shellRemovals)
    /\ NoDuplicates(hist.starRemovals)

\* a shell and stars have been removed, and a shell and stars are active
C15_Witness ==
    /\ hist.shellRemovals # << >>
    /\ hist.starRemovals # << >>
    /\ shells # << >>
    /\ stars # << >>

\* the tick that has ended ran at a measured framerate of at most
\* FRAMERATE_TOLERANCE
SlowTickEnded ==
    /\ TickEnded
    /\ IsNumber(log.framerate)
    /\ log.framerate <= FRAMERATE_TOLERANCE * FP

\* C21: in a tick whose framerate is at most FRAMERATE_TOLERANCE, a shell the
\* scan visits (and that does not detonate) is updated if a scan of an
\* earlier tick has visited it, and is not updated if none has.
C21_SlowTickDefersNewShells ==
    [][SlowTickEnded' =>
          \A id \in Range(log'.shellVisited) \ Range(log'.detonated) :
              id \in Range(log'.shellUpdated) <=> id \in hist.visited
      ]_vars

\* C28: every shell in the array shells has spawned = true, and every tick,
\* whatever its framerate, updates every shell its scan visits that has not
\* detonated.
C28_VisitedShellsUpdated ==
    /\ \A id \in ActiveShells : shellHeap[id].spawned = True
    /\ TickEnded =>
          \A id \in Range(log.shellVisited) \ Range(log.detonated) :
              id \in Range(log.shellUpdated)

\* a tick at a low framerate has updated a shell for the first time
C28_Witness ==
    /\ SlowTickEnded
    /\ \E id \in Range(log.shellUpdated) :
          /\ id \in ActiveShells
          /\ shellHeap[id].lastUpdate = log.clock
          /\ shellHeap[id].currentPosition = getLauncherPosition

\* the numbers of ticks a flight can have seen
FlightTicks == 0 .. (FlightMaxTime \div ((40 * FP) \div 100)) + 1

\* a further tick is due: the load event, or a frame within the time of the
\* flight
FlightTickDue ==
    \/ ~loaded
    \/ \E d \in FlightSteps : now + d <= FlightMaxTime

\* C22: every tick ends with an animation frame requested, whatever is in
\* the arrays, and under frames that are run when requested a further tick
\* always follows.
C22_LoopKeepsTicking ==
    /\ [](loaded => framePending > 0)
    /\ [][log'.handler = "frame" => framePending' > 0]_vars
    /\ \A n \in FlightTicks : (frames = n /\ FlightTickDue) ~> frames > n

\* the seventh tick, with shells detonated and their stars in flight
C22_Witness ==
    /\ TickEnded
    /\ frames = 7
    /\ framePending > 0
    /\ hist.shellRemovals # << >>
    /\ stars # << >>

\* C23: at most one animation frame is requested at any time, and the
\* arrays shells and stars change only in a tick of the loop, a callback of
\* the fanfare timer or the click listener, each of which runs as a whole.
C23_HandlersSerialized ==
    /\ [](framePending <= 1)
    /\ [][(shells' # shells \/ stars' # stars)
             => log'.handler \in { "frame", "timer", "click" }]_vars

\* a callback of the fanfare timer between two ticks, with stars in flight
C23_Witness ==
    /\ log.handler = "timer"
    /\ framePending = 1
    /\ frames >= 2
    /\ stars # << >>
    /\ Len(shells) >= 1

\* a point of the simulation space (meters) that maps into the canvas
InViewport(position) ==
    /\ IsNumber(position[1]) /\ IsNumber(position[2])
    /\ 0 <= position[1] /\ position[1] * SCALE <= Pixels(CanvasWidth)
    /\ 0 <= position[2] /\ position[2] * SCALE <= Pixels(CanvasHeight)

\* the points the program maps: the positions of the bodies and the targets
\* of the shells
MappedPoints ==
    { body.currentPosition : body \in Bodies }
        \cup { shell.target : shell \in Range(shellHeap) }

\* C24: mapFromCanvas(mapToCanvas(p)) = p for every point p within the
\* viewport, the height of the canvas being fixed.
C24_CanvasRoundTrip ==
    \A p \in MappedPoints :
        InViewport(p) => mapFromCanvas(mapToCanvas(p)) = p

\* stars in flight within the viewport, off its vertical center, and a star
\* outside it
C24_Witness ==
    /\ \E id \in ActiveStars :
          /\ InViewport(starHeap[id].currentPosition)
          /\ starHeap[id].lastUpdate # Null
          /\ starHeap[id].currentPosition[2] * SCALE * 2 # Pixels(CanvasHeight)
          /\ starHeap[id].currentPosition[1] % FP # 0
    /\ \E id \in ActiveStars : ~InViewport(starHeap[id].currentPosition)

\* C25: getAccelerationDueToThrust() of a shell whose velocity is [0, 0]
\* returns [0, 0].
C25_NoThrustAtRest ==
    \A shell \in Range(shellHeap) :
        shell.currentVelocity = << 0, 0 >> =>
            getAccelerationDueToThrust(shell) = << 0, 0 >>

\* C27: in any run of ticks, fanfare callbacks and clicks, detonate() is
\* called at most once on each shell, the stars ever pushed onto the array
\* stars are STAR_COUNT for each shell with detonated = true, and a handler
\* constructs only the shells it spawns and the stars of the shells it
\* detonates.
C27_StarsPerDetonation ==
    /\ [](\A id \in 1..Len(shellHeap) :
             /\ hist.detonateCalls[id] <= 1
             /\ shellHeap[id].detonated <=> (hist.detonateCalls[id] = 1))
    /\ [](hist.starsPushed = STAR_COUNT *
             Cardinality({ id \in 1..Len(shellHeap) : shellHeap[id].detonated }))
    /\ [](Len(starHeap) = hist.starsPushed)
    /\ [][/\ Len(starHeap') = Len(starHeap) + STAR_COUNT * Len(log'.detonated)
           /\ Len(shellHeap') = Len(shellHeap) + Len(log'.spawnedShells)]_vars

\* two shells have detonated, in different ticks, and stars of the first
\* have been removed
C27_Witness ==
    /\ Len(shellHeap) = 2
    /\ \A id \in 1..2 : shellHeap[id].detonated
    /\ Len(hist.shellRemovals) = 2
    /\ hist.starsPushed = 2 * STAR_COUNT
    /\ hist.starRemovals # << >>
    /\ TickEnded
    /\ Len(log.detonated) = 1

\* thrust, drag and gravity as update() adds them up for this body
SummedAcceleration(body) ==
    LET thrust == getAccelerationDueToThrust(body)
        drag   == calculateAccelerationDueToDrag(AIR_DENSITY,
                      body.dragCoefficient, body.crossSectionalArea,
                      body.currentVelocity, body.mass)
    IN  << NAdd(OrZero(thrust[1]), OrZero(drag[1])),
           NAdd(NAdd(OrZero(thrust[2]), OrZero(drag[2])),
                ACCELERATION_DUE_TO_GRAVITY) >>

\* C30: an integrating update() of a shell whose velocity is [0, 0] is made
\* with the acceleration its constructor computed, which gives the
\* displacement, and leaves the acceleration [0, ACCELERATION_DUE_TO_GRAVITY];
\* an integrating update() of a shell that moves leaves an acceleration to
\* which the thrust along its velocity contributes.
C30_InitialAccelerationOnce ==
    [][\A id \in 1..Len(shellHeap) :
          (ShellUpdateEnded(id)' /\ Truthy(shellHeap[id].lastUpdate)) =>
             LET shell     == shellHeap[id]
                 velocity  == shell.currentVelocity
                 timeDelta == NSub(now', shell.lastUpdate)
                 thrust    == getAccelerationDueToThrust(shell)
             IN  /\ velocity = << 0, 0 >> =>
                       /\ shell.currentAcceleration =
                              calculateInitialAcceleration(getLauncherPosition,
                                  shell.target, SHELL_MASS, SHELL_THRUST)
                       /\ \A i \in 1..2 :
                              shellHeap'[id].currentPosition[i] =
                                  NAdd(shell.currentPosition[i],
                                       calculateDistance(0, timeDelta,
                                           shell.currentAcceleration[i]))
                       /\ shellHeap'[id].currentAcceleration =
                              << 0, ACCELERATION_DUE_TO_GRAVITY >>
                 /\ (IsNumber(velocity[1]) /\ IsNumber(velocity[2])
                        /\ velocity # << 0, 0 >>) =>
                       /\ IsNumber(thrust[1]) /\ IsNumber(thrust[2])
                       /\ thrust # << 0, 0 >>
                       /\ shellHeap'[id].currentAcceleration =
                              SummedAcceleration(shell)
                       /\ shellHeap'[id].currentAcceleration #
                              << 0, ACCELERATION_DUE_TO_GRAVITY >>
      ]_vars

\* a shell after its first integrating update(): it moves, under gravity
\* alone
C30_Witness ==
    \E id \in 1..Len(shellHeap) :
        /\ ShellUpdateEnded(id)
        /\ shellHeap[id].currentAcceleration = << 0, ACCELERATION_DUE_TO_GRAVITY >>
        /\ IsNumber(shellHeap[id].currentVelocity[2])
        /\ shellHeap[id].currentVelocity[2] > 0
        /\ shellHeap[id].currentPosition # getLauncherPosition

\* the stars constructed in the step for shell id
NewStarsFrom(id) ==
    { n \in (Len(starHeap) + 1)..Len(starHeap') : starHeap'[n].shell = id }

\* C26: when a shell detonates in a tick, STAR_COUNT stars from it are in
\* the array stars when the star scan of that tick starts (they were pushed
\* before the shell was removed), each has the color of the shell and the
\* position the shell had when it detonated, and the star scan of that tick
\* visits each of them.
C26_BurstVisitedAtOnce ==
    [][log'.handler = "frame" =>
          \A id \in Range(log'.detonated) :
              /\ Cardinality(NewStarsFrom(id)) = STAR_COUNT
              /\ id \in Range(log'.shellRemoved)
              /\ \A n \in NewStarsFrom(id) :
                    /\ n \in Range(log'.starScanStart)
                    /\ starHeap'[n].color = shellHeap[id].color
                    /\ starHeap'[n].currentPosition = shellHeap[id].currentPosition
                    /\ n \in Range(log'.starUpdated)
      ]_vars

\* C29: every star in the array stars is eventually removed from it, under
\* frames that keep running with advancing time: a star that a tick has
\* skipped, or has found still burning, is checked again by a later tick.
\* Stated for all stars at once: whenever the array holds stars it is
\* eventually empty, so that each star that was in it has been removed; and
\* a star, once removed, is never in the array again.
C29_EveryStarRemoved ==
    /\ (stars # << >>) ~> (stars = << >>)
    /\ [][\A id \in Range(hist.starRemovals) : id \notin ActiveStars']_vars

\* every star of two bursts removed, some of them by a tick later than the
\* first one that found stars burnt out
C29_Witness ==
    /\ TickEnded
    /\ Len(starHeap) = MaxShells * STAR_COUNT
    /\ stars = << >>
    /\ Len(hist.starRemovals) = MaxShells * STAR_COUNT
    /\ log.starRemoved # << >>
    /\ Len(log.starRemoved) < MaxShells * STAR_COUNT

====
